---- MODULE Spec2Model ----
(***************************************************************************)
(* Model of the stock analysis core of shelf-sentinel-pro                  *)
(* (src/src/lib/stock-analyzer.ts) and of the supplier search workflow     *)
(* built on it (executeSupplierSearchWorkflow), and of the parser of the   *)
(* photo analysis text (parseInventoryItems).                              *)
(*                                                                         *)
(* Time is counted in whole days.  Quantities that the code keeps as       *)
(* JavaScript numbers with one decimal (the estimated daily usage and the  *)
(* simulated quantity of the predictive curve) are kept in tenths, so the  *)
(* arithmetic is exact; percentages are kept as the fraction the code      *)
(* divides (numerator, denominator).                                       *)
(***************************************************************************)
EXTENDS Integers, Sequences, FiniteSets, TLC

VARIABLES now, counts, ret, an_pc, an_user, an_idx, an_trends, an_start,
          an_end, cv_pc, cv_counts, cv_levels, cv_daysForward,
          wf, orders, conversations, text

vars == <<now, counts, ret, an_pc, an_user, an_idx, an_trends, an_start,
          an_end, cv_pc, cv_counts, cv_levels, cv_daysForward,
          wf, orders, conversations, text>>

an_vars == <<an_pc, an_user, an_idx, an_trends, an_start, an_end>>

cv_vars == <<cv_pc, cv_counts, cv_levels, cv_daysForward>>

wf_vars == <<wf, orders, conversations>>

(***************************************************************************)
(* Bounds of the model                                                     *)
(***************************************************************************)
MaxCounts == 3

MaxLeadTime == 3

\* the days at which the clock is observed
ClockValues == {0, 10, 30, 45}

AnalyzeClockValues == {0, 7, 15}

AnalyzeQuantities == {0, 70, 71, 100, 101}

CurveQuantities == {50, 51, 100, 310}

DaysForwardValues == {0, 3, 30}

PredictDays == {14, 30}

\* quantities logged where only the number of observations matters
WindowQuantities == {50, 100}
\* quantities logged for the prediction of one item
PredictQuantities == {0, 50, 51, 100}
\* quantities logged for the item of the workflow
WorkflowQuantities == {0, 100, 115}
\* the invocations of the workflow, all for the same item
Invocations == {1, 2}
\* the characters of a line of the analysis text: digits, the separators of
\* the four patterns, a letter and the blank
Alphabet == {"0", "3", "x", "a", ":", "(", ")", " "}
\* the characters of the lines of a text of several lines
TextAlphabet == {"3", "x", "a", " "}
\* the longest line of a text of one line
MaxLineLen == 4
\* the longest line of a text of several lines
MaxTextLineLen == 3
\* the number of lines of a text of several lines
MaxLines == 2
Users == {"owner", "newcomer"}

CurveItem == 1

(***************************************************************************)
(* Program constants                                                       *)
(***************************************************************************)
DECLINE_THRESHOLD == 30

CRITICAL_THRESHOLD == 50

MEDIUM_THRESHOLD == 15

STABLE_BAND == 5

ANALYZE_DAYS == 7

HISTORY_DAYS == 30

DEFAULT_LEAD_TIME == 3

DEFAULT_DAILY_USAGE == 10

ORDER_COVER_DAYS == 14

DAYS_PER_YEAR == 365

(***************************************************************************)
(* Arithmetic of the JavaScript runtime                                    *)
(***************************************************************************)
Max(a, b) == IF a >= b THEN a ELSE b

\* Math.ceil(n / d) for d > 0
CeilDiv(n, d) == -((-n) \div d)

\* RoundDiv with the fraction cut off instead of rounded
RoundDivTruncating(n, d) == n \div d

\* Math.round(n / d) for d > 0: halves round towards +Infinity
RoundDiv(n, d) == (2 * n + d) \div (2 * d)

\* toLocaleDateString('en-US', {month: 'short', day: 'numeric'}): the label
\* names the day within the year and drops the year
FormatDate(d) == d % DAYS_PER_YEAR

(***************************************************************************)
(* Persistence collaborator: the inventory_items and inventory_counts      *)
(* tables                                                                  *)
(***************************************************************************)
ItemsOf(u) == IF u = "owner" THEN <<1, 2>> ELSE <<>>

AllItems == {1, 2}

\* .eq('item_id', item).gte('created_at', from).lte('created_at', to)
\* .order('created_at', ascending); rows are appended with the clock, so the
\* table is already in ascending order
QueryCounts(item, from, to) ==
  SelectSeq(counts, LAMBDA r : r.item_id = item /\ r.created_at >= from
                                /\ r.created_at <= to)

\* the same query without an upper limit on created_at
QueryCountsSince(item, from) ==
  SelectSeq(counts, LAMBDA r : r.item_id = item /\ r.created_at >= from)

(***************************************************************************)
(* calculateTrend, getRiskLevel                                            *)
(***************************************************************************)
calculateTrendSignFlipped(current, previous) ==
  IF previous = 0
  THEN IF current > 0 THEN "decreasing" ELSE "increasing"
  ELSE LET change100 == (current - previous) * 100
           abs100 == IF change100 < 0 THEN -change100 ELSE change100
       IN IF abs100 < STABLE_BAND * previous THEN "stable"
          ELSE IF change100 < 0 THEN "increasing"
          ELSE "decreasing"

\* change = ((current - previous) / previous) * 100; previous = 0 gives
\* +Infinity when current > 0 and NaN when current = 0 (every comparison
\* with NaN is false, so the last return is taken)
calculateTrend(current, previous) ==
  IF previous = 0
  THEN IF current > 0 THEN "increasing" ELSE "decreasing"
  ELSE LET change100 == (current - previous) * 100
           abs100 == IF change100 < 0 THEN -change100 ELSE change100
       IN IF abs100 < STABLE_BAND * previous THEN "stable"
          ELSE IF change100 > 0 THEN "increasing"
          ELSE "decreasing"

\* declinePercent is the fraction num / den, den > 0
getRiskLevel(num, den) ==
  IF num >= CRITICAL_THRESHOLD * den THEN "critical"
  ELSE IF num >= DECLINE_THRESHOLD * den THEN "high"
  ELSE IF num >= MEDIUM_THRESHOLD * den THEN "medium"
  ELSE "low"

\* the StockTrend built from the rows of one item (at least 2 rows)
MakeTrend(item, rows, days) ==
  LET oldestCount == rows[1].quantity
      latestCount == rows[Len(rows)].quantity
      num == IF oldestCount > 0 THEN (oldestCount - latestCount) * 100 ELSE 0
      den == IF oldestCount > 0 THEN oldestCount ELSE 1
  IN [item_id |-> item,
      current_quantity |-> latestCount,
      previous_quantity |-> oldestCount,
      decline_percentage |-> RoundDiv(num, den),
      days_tracked |-> days,
      trend |-> calculateTrend(latestCount, oldestCount),
      risk_level |-> getRiskLevel(num, den)]

IsLowStock(t) ==
  t.decline_percentage >= DECLINE_THRESHOLD /\ t.risk_level # "critical"

IsCritical(t) == t.risk_level = "critical"

IsHealthy(t) == t.risk_level = "low" \/ t.trend = "increasing"

Categorize(trends) ==
  [op |-> "analyze",
   threw |-> FALSE,
   trends |-> trends,
   lowStockItems |-> SelectSeq(trends, IsLowStock),
   criticalItems |-> SelectSeq(trends, IsCritical),
   healthyStockItems |-> SelectSeq(trends, IsHealthy)]

NoRet == [op |-> "none"]

\* a line without characters; the text "" is one such line
EmptyLine == <<>>

\* the null that predictStockOut returns
NullPrediction == [is_null |-> TRUE]

\* an invocation of executeSupplierSearchWorkflow before its first call: pc
\* names the call it makes next, log lists the calls it has made
NotStarted ==
  [pc |-> "predictStockOut",
   prediction |-> NullPrediction,
   current_quantity |-> 0,
   reorder_level |-> 0,
   minimum_stock |-> 0,
   order_id |-> 0,
   result |-> "none",
   log |-> <<>>]

(***************************************************************************)
(* State                                                                   *)
(***************************************************************************)
Init ==
  /\ now = 0
  /\ counts = <<>>
  /\ ret = NoRet
  /\ an_pc = "idle"
  /\ an_user = "owner"
  /\ an_idx = 0
  /\ an_trends = <<>>
  /\ an_start = 0
  /\ an_end = 0
  /\ cv_pc = "idle"
  /\ cv_counts = <<>>
  /\ cv_levels = [lead_time_days |-> 0]
  /\ cv_daysForward = 0
  /\ wf = [p \in Invocations |-> NotStarted]
  /\ orders = <<>>
  /\ conversations = <<>>
  /\ text = <<EmptyLine>>

\* "log a count": a row is appended to inventory_counts with the current time
LogCount(item, q) ==
  /\ Len(counts) < MaxCounts
  /\ counts' = Append(counts, [item_id |-> item, quantity |-> q, created_at |-> now])
  /\ ret' = NoRet
  /\ UNCHANGED <<text, now, an_vars, cv_vars, wf_vars>>

\* the clock is counted in days and a call takes seconds: the day does not
\* change while a call is in flight
Tick(t) ==
  /\ t > now
  /\ an_pc = "idle"
  /\ cv_pc = "idle"
  /\ now' = t
  /\ ret' = NoRet
  /\ UNCHANGED <<text, counts, an_vars, cv_vars, wf_vars>>

(***************************************************************************)
(* analyzeStockLevels                                                      *)
(***************************************************************************)
\* the items query; an error is rethrown by the catch block
AnalyzeStart(u, ok) ==
  /\ an_pc = "idle"
  /\ IF ~ok
     THEN /\ ret' = [op |-> "analyze", threw |-> TRUE]
          /\ UNCHANGED an_vars
     ELSE IF ItemsOf(u) = <<>>
     THEN /\ ret' = Categorize(<<>>)
          /\ UNCHANGED an_vars
     ELSE /\ an_pc' = "loop"
          /\ an_user' = u
          /\ an_idx' = 1
          /\ an_trends' = <<>>
          /\ an_end' = now
          /\ an_start' = now - ANALYZE_DAYS
          /\ ret' = NoRet
  /\ UNCHANGED <<text, now, counts, cv_vars, wf_vars>>

\* AnalyzeItem accepting an item with a single observation
AnalyzeItemOneRow(ok) ==
  /\ an_pc = "loop"
  /\ an_idx <= Len(ItemsOf(an_user))
  /\ LET item == ItemsOf(an_user)[an_idx]
         rows == QueryCounts(item, an_start, an_end)
     IN an_trends' = IF ok /\ Len(rows) >= 1
                     THEN Append(an_trends, MakeTrend(item, rows, ANALYZE_DAYS))
                     ELSE an_trends
  /\ an_idx' = an_idx + 1
  /\ ret' = NoRet
  /\ UNCHANGED <<text, now, counts, an_pc, an_user, an_start, an_end, cv_vars, wf_vars>>

\* one iteration of the loop over the items: the counts query of the item
AnalyzeItem(ok) ==
  /\ an_pc = "loop"
  /\ an_idx <= Len(ItemsOf(an_user))
  /\ LET item == ItemsOf(an_user)[an_idx]
         rows == QueryCounts(item, an_start, an_end)
     IN an_trends' = IF ok /\ Len(rows) >= 2
                     THEN Append(an_trends, MakeTrend(item, rows, ANALYZE_DAYS))
                     ELSE an_trends
  /\ an_idx' = an_idx + 1
  /\ ret' = NoRet
  /\ UNCHANGED <<text, now, counts, an_pc, an_user, an_start, an_end, cv_vars, wf_vars>>

AnalyzeFinish ==
  /\ an_pc = "loop"
  /\ an_idx > Len(ItemsOf(an_user))
  /\ ret' = Categorize(an_trends)
  /\ an_pc' = "idle"
  /\ an_idx' = 0
  /\ an_trends' = <<>>
  /\ an_start' = 0
  /\ an_end' = 0
  /\ UNCHANGED <<text, now, counts, an_user, cv_vars, wf_vars>>

(***************************************************************************)
(* predictStockOut                                                         *)
(***************************************************************************)
\* predictStockOut without the test of the latest quantity
predictStockOutNoZeroCheck(item, days, readsOk) ==
  LET rows == QueryCountsSince(item, now - days)
  IN IF ~readsOk \/ Len(rows) < 2 THEN NullPrediction
     ELSE LET firstCount == rows[1].quantity
              lastCount == rows[Len(rows)].quantity
              daysDiff == Max(1, rows[Len(rows)].created_at - rows[1].created_at)
              totalUsage == firstCount - lastCount
          IN IF totalUsage <= 0 THEN NullPrediction
             ELSE LET daysUntilStockOut == CeilDiv(lastCount * daysDiff, totalUsage)
                  IN [is_null |-> FALSE,
                      item_id |-> item,
                      current_quantity |-> lastCount,
                      estimated_daily_usage |-> RoundDiv(10 * totalUsage, daysDiff),
                      days_until_stock_out |-> daysUntilStockOut,
                      estimated_stock_out_date |-> now + daysUntilStockOut]

\* predictStockOut measuring the usage from the observation before the latest
predictStockOutFromPreviousRow(item, days, readsOk) ==
  LET rows == QueryCountsSince(item, now - days)
  IN IF ~readsOk \/ Len(rows) < 2 THEN NullPrediction
     ELSE LET firstCount == rows[Len(rows) - 1].quantity
              lastCount == rows[Len(rows)].quantity
              daysDiff == Max(1, rows[Len(rows)].created_at - rows[1].created_at)
              totalUsage == firstCount - lastCount
          IN IF totalUsage <= 0 \/ lastCount <= 0 THEN NullPrediction
             ELSE LET daysUntilStockOut == CeilDiv(lastCount * daysDiff, totalUsage)
                  IN [is_null |-> FALSE,
                      item_id |-> item,
                      current_quantity |-> lastCount,
                      estimated_daily_usage |-> RoundDiv(10 * totalUsage, daysDiff),
                      days_until_stock_out |-> daysUntilStockOut,
                      estimated_stock_out_date |-> now + daysUntilStockOut]

\* readsOk: the inventory_items row and the inventory_counts rows were read.
\* A failed read leaves data null (or is caught) and the function returns
\* null.  estimated_daily_usage is in tenths.
predictStockOut(item, days, readsOk) ==
  LET rows == QueryCountsSince(item, now - days)
  IN IF ~readsOk \/ Len(rows) < 2 THEN NullPrediction
     ELSE LET firstCount == rows[1].quantity
              lastCount == rows[Len(rows)].quantity
              daysDiff == Max(1, rows[Len(rows)].created_at - rows[1].created_at)
              totalUsage == firstCount - lastCount
          IN IF totalUsage <= 0 \/ lastCount <= 0 THEN NullPrediction
             ELSE LET daysUntilStockOut == CeilDiv(lastCount * daysDiff, totalUsage)
                  IN [is_null |-> FALSE,
                      item_id |-> item,
                      current_quantity |-> lastCount,
                      estimated_daily_usage |-> RoundDiv(10 * totalUsage, daysDiff),
                      days_until_stock_out |-> daysUntilStockOut,
                      estimated_stock_out_date |-> now + daysUntilStockOut]

(***************************************************************************)
(* calculateReorderLevels                                                  *)
(***************************************************************************)
\* DefaultLevels with the buffer raised to the minimum
DefaultLevelsBufferAsMinimum(leadTimeDays) ==
  [maximum_stock |-> 600,
   reorder_level |-> 300,
   minimum_stock |-> 100,
   buffer_stock |-> 100,
   lead_time_days |-> leadTimeDays]

DefaultLevels(leadTimeDays) ==
  [maximum_stock |-> 600,
   reorder_level |-> 300,
   minimum_stock |-> 100,
   buffer_stock |-> 50,
   lead_time_days |-> leadTimeDays]

\* ComputedLevels with the buffer left out of the reorder level
ComputedLevelsNoBuffer(dailyUsage, leadTimeDays) ==
  LET bufferStock == CeilDiv(leadTimeDays * dailyUsage * 15, 100)
      reorderLevel == CeilDiv(leadTimeDays * dailyUsage, 10)
      orderQuantity == CeilDiv(dailyUsage * ORDER_COVER_DAYS, 10)
  IN [maximum_stock |-> reorderLevel + orderQuantity,
      reorder_level |-> reorderLevel,
      minimum_stock |-> bufferStock,
      buffer_stock |-> bufferStock,
      lead_time_days |-> leadTimeDays]

\* ComputedLevels with the minimum taken from the lead-time demand
ComputedLevelsMinFromLead(dailyUsage, leadTimeDays) ==
  LET bufferStock == CeilDiv(leadTimeDays * dailyUsage * 15, 100)
      minimumStock == CeilDiv(leadTimeDays * dailyUsage, 10)
      reorderLevel == CeilDiv(leadTimeDays * dailyUsage, 10) + bufferStock
      orderQuantity == CeilDiv(dailyUsage * ORDER_COVER_DAYS, 10)
  IN [maximum_stock |-> reorderLevel + orderQuantity,
      reorder_level |-> reorderLevel,
      minimum_stock |-> minimumStock,
      buffer_stock |-> bufferStock,
      lead_time_days |-> leadTimeDays]

\* the levels computed from a non-null prediction (usage in tenths)
ComputedLevels(dailyUsage, leadTimeDays) ==
  LET bufferStock == CeilDiv(leadTimeDays * dailyUsage * 15, 100)
      minimumStock == bufferStock
      reorderLevel == CeilDiv(leadTimeDays * dailyUsage, 10) + bufferStock
      orderQuantity == CeilDiv(dailyUsage * ORDER_COVER_DAYS, 10)
      maximumStock == reorderLevel + orderQuantity
  IN [maximum_stock |-> maximumStock,
      reorder_level |-> reorderLevel,
      minimum_stock |-> minimumStock,
      buffer_stock |-> bufferStock,
      lead_time_days |-> leadTimeDays]

LevelsFor(prediction, leadTimeDays) ==
  IF prediction.is_null THEN DefaultLevels(leadTimeDays)
  ELSE ComputedLevels(prediction.estimated_daily_usage, leadTimeDays)

calculateReorderLevels(item, leadTimeDays, readsOk) ==
  LevelsFor(predictStockOut(item, HISTORY_DAYS, readsOk), leadTimeDays)

\* the caller makes one call at a time; the tables change at any time.
\* reads_ok records whether the queries of the call succeeded.
PredictStockOut(days, readsOk) ==
  /\ cv_pc = "idle"
  /\ ret' = [op |-> "predict", days |-> days, reads_ok |-> readsOk,
             prediction |-> predictStockOut(CurveItem, days, readsOk)]
  /\ UNCHANGED <<text, now, counts, an_vars, cv_vars, wf_vars>>

\* ret.prediction is the value of the local variable prediction
CalculateReorderLevels(leadTimeDays, readsOk) ==
  /\ cv_pc = "idle"
  /\ ret' = [op |-> "levels", reads_ok |-> readsOk,
             prediction |-> predictStockOut(CurveItem, HISTORY_DAYS, readsOk),
             reorderLevels |-> calculateReorderLevels(CurveItem, leadTimeDays, readsOk)]
  /\ UNCHANGED <<text, now, counts, an_vars, cv_vars, wf_vars>>

(***************************************************************************)
(* generatePredictiveCurve                                                 *)
(***************************************************************************)
\* Math.round of a quantity kept in tenths
MathRound(q10) == RoundDiv(q10, 10)

HistoricalPoint(row) ==
  [date |-> FormatDate(row.created_at),
   quantity |-> row.quantity,
   is_predicted |-> FALSE]

\* LeadPoints with the countdown started one day late
LeadPointsLateCountdown(date1, qty1, dailyUsage, lv) ==
  [leadDay \in 1..lv.lead_time_days |->
     [date |-> FormatDate(date1 + leadDay),
      quantity |-> Max(lv.minimum_stock, MathRound(qty1 - leadDay * dailyUsage)),
      is_predicted |-> TRUE,
      days_until_delivery |-> lv.lead_time_days - leadDay + 1]]

\* LeadPoints without the clamp to minimum_stock
LeadPointsUnclamped(date1, qty1, dailyUsage, lv) ==
  [leadDay \in 1..lv.lead_time_days |->
     [date |-> FormatDate(date1 + leadDay),
      quantity |-> MathRound(qty1 - leadDay * dailyUsage),
      is_predicted |-> TRUE,
      days_until_delivery |-> lv.lead_time_days - leadDay]]

\* the points pushed by the lead-time loop: leadDay = 1 .. lead_time_days,
\* date1 and qty1 are currentDate and currentQuantity when the loop starts
LeadPoints(date1, qty1, dailyUsage, lv) ==
  [leadDay \in 1..lv.lead_time_days |->
     [date |-> FormatDate(date1 + leadDay),
      quantity |-> Max(lv.minimum_stock, MathRound(qty1 - leadDay * dailyUsage)),
      is_predicted |-> TRUE,
      days_until_delivery |-> lv.lead_time_days - leadDay]]

RestockPoint(date, lv) ==
  [date |-> FormatDate(date),
   quantity |-> lv.maximum_stock,
   is_predicted |-> TRUE,
   is_reorder_point |-> TRUE]

\* the point pushed at the end of an iteration without reorder trigger
\* (days_until_delivery is undefined there)
NormalPoint(date, qty10) ==
  [date |-> FormatDate(date),
   quantity |-> MathRound(qty10),
   is_predicted |-> TRUE,
   is_reorder_point |-> FALSE]

\* OuterStep with the reorder trigger tested on reorder_level alone, without
\* the lower limit currentQuantity > minimum_stock
OuterStepTriggerBelowMinimum(st, lv, dailyUsage) ==
  LET date1 == st.currentDate + 1
      qty1 == st.currentQuantity - dailyUsage
      L == lv.lead_time_days
  IN IF qty1 <= 10 * lv.reorder_level
     THEN [day |-> st.day + L + 1,
           currentDate |-> date1 + L,
           currentQuantity |-> 10 * lv.maximum_stock,
           data |-> (st.data \o LeadPoints(date1, qty1, dailyUsage, lv))
                      \o <<RestockPoint(date1 + L, lv)>>,
           times |-> (st.times \o [leadDay \in 1..L |-> date1 + leadDay])
                      \o <<date1 + L>>,
           triggers |-> Append(st.triggers, Len(st.data))]
     ELSE [day |-> st.day + 1,
           currentDate |-> date1,
           currentQuantity |-> qty1,
           data |-> Append(st.data, NormalPoint(date1, qty1)),
           times |-> Append(st.times, date1),
           triggers |-> st.triggers]

\* one iteration of the outer loop, entered with day <= daysForward.
\* st.times (the simulated day of every pushed point) and st.triggers (the
\* number of points pushed before each reorder trigger) record the run and
\* are no part of the returned value.
OuterStep(st, lv, dailyUsage) ==
  LET date1 == st.currentDate + 1
      qty1 == st.currentQuantity - dailyUsage
      L == lv.lead_time_days
  IN IF qty1 <= 10 * lv.reorder_level /\ qty1 > 10 * lv.minimum_stock
     THEN [day |-> st.day + L + 1,
           currentDate |-> date1 + L,
           currentQuantity |-> 10 * lv.maximum_stock,
           data |-> (st.data \o LeadPoints(date1, qty1, dailyUsage, lv))
                      \o <<RestockPoint(date1 + L, lv)>>,
           times |-> (st.times \o [leadDay \in 1..L |-> date1 + leadDay])
                      \o <<date1 + L>>,
           triggers |-> Append(st.triggers, Len(st.data))]
     ELSE LET qty2 == IF qty1 < 10 * lv.minimum_stock
                      THEN 10 * lv.minimum_stock ELSE qty1
          IN [day |-> st.day + 1,
              currentDate |-> date1,
              currentQuantity |-> qty2,
              data |-> Append(st.data, NormalPoint(date1, qty2)),
              times |-> Append(st.times, date1),
              triggers |-> st.triggers]

\* PredictLoop with the loop test day < daysForward
RECURSIVE PredictLoopOffByOne(_, _, _, _)
PredictLoopOffByOne(st, lv, dailyUsage, daysForward) ==
  IF st.day >= daysForward THEN st
  ELSE PredictLoopOffByOne(OuterStep(st, lv, dailyUsage), lv, dailyUsage, daysForward)

RECURSIVE PredictLoop(_, _, _, _)
PredictLoop(st, lv, dailyUsage, daysForward) ==
  IF st.day > daysForward THEN st
  ELSE PredictLoop(OuterStep(st, lv, dailyUsage), lv, dailyUsage, daysForward)

\* prediction?.estimated_daily_usage || 10, in tenths (0 is falsy)
CurveDailyUsage(prediction) ==
  IF prediction.is_null \/ prediction.estimated_daily_usage = 0
  THEN 10 * DEFAULT_DAILY_USAGE
  ELSE prediction.estimated_daily_usage

EmptyCurve(daysForward) ==
  [op |-> "curve",
   data |-> <<>>,
   reorderLevels |-> DefaultLevels(DEFAULT_LEAD_TIME),
   daysForward |-> daysForward,
   from_counts |-> FALSE]

\* CurveResult with the predicted points put in front of the history
CurveResultPredictedFirst(rows, lv, prediction, daysForward) ==
  LET last == rows[Len(rows)]
      dailyUsage == CurveDailyUsage(prediction)
      st0 == [day |-> 1,
              currentDate |-> last.created_at,
              currentQuantity |-> 10 * last.quantity,
              data |-> <<>>,
              times |-> <<>>,
              triggers |-> <<>>]
      st == PredictLoop(st0, lv, dailyUsage, daysForward)
  IN [op |-> "curve",
      data |-> st.data \o [i \in 1..Len(rows) |-> HistoricalPoint(rows[i])],
      reorderLevels |-> lv,
      daysForward |-> daysForward,
      from_counts |-> TRUE,
      history |-> Len(rows),
      times |-> st.times \o [i \in 1..Len(rows) |-> rows[i].created_at],
      triggers |-> st.triggers,
      prediction |-> prediction,
      dailyUsage |-> dailyUsage,
      simulatedDays |-> st.currentDate - last.created_at]

\* the value returned at the end, with the record of the run: times,
\* triggers, history (the number of historical points), the prediction and
\* usage the loop ran with, and the number of days currentDate advanced
CurveResult(rows, lv, prediction, daysForward) ==
  LET last == rows[Len(rows)]
      dailyUsage == CurveDailyUsage(prediction)
      st0 == [day |-> 1,
              currentDate |-> last.created_at,
              currentQuantity |-> 10 * last.quantity,
              data |-> <<>>,
              times |-> <<>>,
              triggers |-> <<>>]
      st == PredictLoop(st0, lv, dailyUsage, daysForward)
  IN [op |-> "curve",
      data |-> [i \in 1..Len(rows) |-> HistoricalPoint(rows[i])] \o st.data,
      reorderLevels |-> lv,
      daysForward |-> daysForward,
      from_counts |-> TRUE,
      history |-> Len(rows),
      times |-> [i \in 1..Len(rows) |-> rows[i].created_at] \o st.times,
      triggers |-> st.triggers,
      prediction |-> prediction,
      dailyUsage |-> dailyUsage,
      simulatedDays |-> st.currentDate - last.created_at]

\* the first query (rows of the last 30 days); outcome "error" leaves data
\* null, "throw" is caught by the catch block
CurveStart(daysForward, outcome) ==
  /\ cv_pc = "idle"
  /\ LET rows == QueryCountsSince(CurveItem, now - HISTORY_DAYS)
     IN IF outcome # "ok" \/ rows = <<>>
        THEN /\ ret' = EmptyCurve(daysForward)
             /\ UNCHANGED cv_vars
        ELSE /\ cv_pc' = "levels"
             /\ cv_counts' = rows
             /\ cv_daysForward' = daysForward
             /\ ret' = NoRet
             /\ UNCHANGED cv_levels
  /\ UNCHANGED <<text, now, counts, an_vars, wf_vars>>

\* await calculateReorderLevels(userId, itemId)
CurveLevels(readsOk) ==
  /\ cv_pc = "levels"
  /\ cv_levels' = calculateReorderLevels(CurveItem, DEFAULT_LEAD_TIME, readsOk)
  /\ cv_pc' = "predict"
  /\ ret' = NoRet
  /\ UNCHANGED <<text, now, counts, an_vars, cv_counts, cv_daysForward, wf_vars>>

\* await predictStockOut(userId, itemId, 30) and the synchronous rest
CurveFinish(readsOk) ==
  /\ cv_pc = "predict"
  /\ ret' = CurveResult(cv_counts, cv_levels,
                        predictStockOut(CurveItem, HISTORY_DAYS, readsOk),
                        cv_daysForward)
  /\ cv_pc' = "idle"
  /\ cv_counts' = <<>>
  /\ cv_levels' = [lead_time_days |-> 0]
  /\ cv_daysForward' = 0
  /\ UNCHANGED <<text, now, counts, an_vars, wf_vars>>

LogCountC == \E q \in CurveQuantities : LogCount(CurveItem, q)

TickC == \E t \in ClockValues : Tick(t)

PredictStockOutAny ==
  \E days \in PredictDays, readsOk \in BOOLEAN :
    PredictStockOut(days, readsOk)

CalculateReorderLevelsAny ==
  \E leadTimeDays \in 0..MaxLeadTime, readsOk \in BOOLEAN :
    CalculateReorderLevels(leadTimeDays, readsOk)

CurveStartAny ==
  \E daysForward \in DaysForwardValues, outcome \in {"ok", "error", "throw"} :
    CurveStart(daysForward, outcome)

CurveLevelsAny == \E readsOk \in BOOLEAN : CurveLevels(readsOk)

CurveFinishAny == \E readsOk \in BOOLEAN : CurveFinish(readsOk)

NextCurve ==
  \/ LogCountC
  \/ TickC
  \/ PredictStockOutAny
  \/ CalculateReorderLevelsAny
  \/ CurveStartAny
  \/ CurveLevelsAny
  \/ CurveFinishAny

SpecCurve == Init /\ [][NextCurve]_vars

LogCountA == \E i \in AllItems, q \in AnalyzeQuantities : LogCount(i, q)

TickA == \E t \in AnalyzeClockValues : Tick(t)

AnalyzeStartAny == \E u \in Users, ok \in BOOLEAN : AnalyzeStart(u, ok)

AnalyzeItemAny == \E ok \in BOOLEAN : AnalyzeItem(ok)

NextAnalyze ==
  \/ LogCountA
  \/ TickA
  \/ AnalyzeStartAny
  \/ AnalyzeItemAny
  \/ AnalyzeFinish

SpecAnalyze == Init /\ [][NextAnalyze]_vars

\* the analysis and the prediction over the same tables, one call at a time
LogCountWin == \E i \in AllItems, q \in WindowQuantities : LogCount(i, q)

PredictStockOutWin == an_pc = "idle" /\ PredictStockOutAny

NextWindow ==
  \/ LogCountWin
  \/ TickA
  \/ AnalyzeStartAny
  \/ AnalyzeItemAny
  \/ AnalyzeFinish
  \/ PredictStockOutWin

SpecWindow == Init /\ [][NextWindow]_vars

\* the prediction and the reorder levels of one item, called on their own
LogCountP == \E q \in PredictQuantities : LogCount(CurveItem, q)

NextPredict ==
  \/ LogCountP
  \/ TickC
  \/ PredictStockOutAny
  \/ CalculateReorderLevelsAny

SpecPredict == Init /\ [][NextPredict]_vars

(***************************************************************************)
(* executeSupplierSearchWorkflow                                           *)
(*                                                                         *)
(* Each action is one awaited call of the function together with the       *)
(* synchronous code that follows it.  A call that throws is caught by the  *)
(* catch block of the workflow, which returns success: false.  The reads   *)
(* of generatePredictiveCurve are taken in one step here; SpecCurve        *)
(* explores their interleavings.                                           *)
(***************************************************************************)
Called(name, ok) == [call |-> name, ok |-> ok]

\* the call of invocation p returned: the invocation goes on to the next call
Proceed(p, name, ok, next) ==
  [wf[p] EXCEPT !.pc = next, !.log = Append(@, Called(name, ok))]

\* the call of invocation p threw: catch block, { success: false, error }
Thrown(p, name) ==
  [wf[p] EXCEPT !.pc = "done", !.result = "failure",
                !.log = Append(@, Called(name, FALSE))]

\* Step 1, first call: predictStockOut(userId, itemId, 30)
WfPredict(p, readsOk) ==
  /\ wf[p].pc = "predictStockOut"
  /\ wf' = [wf EXCEPT ![p] =
              [Proceed(p, "predictStockOut", readsOk, "generatePredictiveCurve")
                 EXCEPT !.prediction =
                          predictStockOut(CurveItem, HISTORY_DAYS, readsOk)]]
  /\ ret' = NoRet
  /\ UNCHANGED <<text, now, counts, an_vars, cv_vars, orders, conversations>>

\* the calls generatePredictiveCurve makes once its first query has rows:
\* calculateReorderLevels, which calls predictStockOut, and predictStockOut
NestedCalls(empty) ==
  IF empty THEN <<>>
  ELSE <<Called("predictStockOut", TRUE), Called("predictStockOut", TRUE)>>

\* generatePredictiveCurve(userId, itemId, 30) as its caller sees it, with
\* its reads taken at once
predictiveCurveAtOnce(readsOk) ==
  LET rows == QueryCountsSince(CurveItem, now - HISTORY_DAYS)
  IN IF ~readsOk \/ rows = <<>> THEN EmptyCurve(HISTORY_DAYS)
     ELSE CurveResult(rows,
                      calculateReorderLevels(CurveItem, DEFAULT_LEAD_TIME, TRUE),
                      predictStockOut(CurveItem, HISTORY_DAYS, TRUE),
                      HISTORY_DAYS)

\* data.find(d => !d.is_predicted): the first point that is not predicted,
\* as a sequence of at most one point
currentData(data) ==
  LET historical == SelectSeq(data, LAMBDA d : ~d.is_predicted)
  IN IF historical = <<>> THEN <<>> ELSE <<historical[1]>>

\* WfCurve reading the fields of the prediction with optional chaining
WfCurveOptionalChaining(p, readsOk) ==
  /\ wf[p].pc = "generatePredictiveCurve"
  /\ LET curve == predictiveCurveAtOnce(readsOk)
         currentQuantity == IF currentData(curve.data) = <<>> THEN 0
                            ELSE currentData(curve.data)[1].quantity
         called == Append(wf[p].log, Called("generatePredictiveCurve", readsOk))
                     \o NestedCalls(~curve.from_counts)
     IN wf' = [wf EXCEPT ![p] =
                 IF FALSE
                 THEN [wf[p] EXCEPT !.pc = "done", !.result = "failure",
                                    !.log = called]
                 ELSE [wf[p] EXCEPT !.pc = "searchSuppliersForItems",
                                    !.current_quantity = currentQuantity,
                                    !.reorder_level = curve.reorderLevels.reorder_level,
                                    !.minimum_stock = curve.reorderLevels.minimum_stock,
                                    !.log = called]]
  /\ ret' = NoRet
  /\ UNCHANGED <<text, now, counts, an_vars, cv_vars, orders, conversations>>

\* Step 1, second call: generatePredictiveCurve(userId, itemId, 30), the
\* current quantity (the first point that is not predicted, or 0) and the
\* inventory context; reading days_until_stock_out of a null prediction
\* throws a TypeError
WfCurve(p, readsOk) ==
  /\ wf[p].pc = "generatePredictiveCurve"
  /\ LET curve == predictiveCurveAtOnce(readsOk)
         currentQuantity == IF currentData(curve.data) = <<>> THEN 0
                            ELSE currentData(curve.data)[1].quantity
         called == Append(wf[p].log, Called("generatePredictiveCurve", readsOk))
                     \o NestedCalls(~curve.from_counts)
     IN wf' = [wf EXCEPT ![p] =
                 IF wf[p].prediction.is_null
                 THEN [wf[p] EXCEPT !.pc = "done", !.result = "failure",
                                    !.log = called]
                 ELSE [wf[p] EXCEPT !.pc = "searchSuppliersForItems",
                                    !.current_quantity = currentQuantity,
                                    !.reorder_level = curve.reorderLevels.reorder_level,
                                    !.minimum_stock = curve.reorderLevels.minimum_stock,
                                    !.log = called]]
  /\ ret' = NoRet
  /\ UNCHANGED <<text, now, counts, an_vars, cv_vars, orders, conversations>>

\* Step 2: searchSuppliersForItems catches the error of a search and puts an
\* empty list of suppliers in its place
WfSearch(p, ok) ==
  /\ wf[p].pc = "searchSuppliersForItems"
  /\ wf' = [wf EXCEPT ![p] =
              Proceed(p, "searchSuppliersForItems", ok, "fetchExistingSuppliers")]
  /\ ret' = NoRet
  /\ UNCHANGED <<text, now, counts, an_vars, cv_vars, orders, conversations>>

\* WfExisting searching the suppliers again when the fetch fails
WfExistingRetry(p, ok) ==
  /\ wf[p].pc = "fetchExistingSuppliers"
  /\ wf' = [wf EXCEPT ![p] =
              Proceed(p, "fetchExistingSuppliers", ok,
                      IF ok THEN "analyzeInventoryAndSuppliers"
                      ELSE "searchSuppliersForItems")]
  /\ ret' = NoRet
  /\ UNCHANGED <<text, now, counts, an_vars, cv_vars, orders, conversations>>

\* Step 3: fetchExistingSuppliers returns [] when the query fails
WfExisting(p, ok) ==
  /\ wf[p].pc = "fetchExistingSuppliers"
  /\ wf' = [wf EXCEPT ![p] =
              Proceed(p, "fetchExistingSuppliers", ok,
                      "analyzeInventoryAndSuppliers")]
  /\ ret' = NoRet
  /\ UNCHANGED <<text, now, counts, an_vars, cv_vars, orders, conversations>>

\* Step 4: analyzeInventoryAndSuppliers rethrows every error
WfReasoning(p, ok) ==
  /\ wf[p].pc = "analyzeInventoryAndSuppliers"
  /\ wf' = [wf EXCEPT ![p] =
              IF ok THEN Proceed(p, "analyzeInventoryAndSuppliers", TRUE,
                                 "createDraftOrderFromGPT")
              ELSE Thrown(p, "analyzeInventoryAndSuppliers")]
  /\ ret' = NoRet
  /\ UNCHANGED <<text, now, counts, an_vars, cv_vars, orders, conversations>>

\* WfOrder taking the draft order the item already has instead of a new one
WfOrderOncePerItem(p, ok) ==
  /\ wf[p].pc = "createDraftOrderFromGPT"
  /\ IF ~ok
     THEN /\ wf' = [wf EXCEPT ![p] = Thrown(p, "createDraftOrderFromGPT")]
          /\ UNCHANGED orders
     ELSE IF orders # <<>>
     THEN /\ wf' = [wf EXCEPT ![p] =
                      [Proceed(p, "createDraftOrderFromGPT", TRUE,
                               "createConversationalSession")
                         EXCEPT !.order_id = orders[1].id]]
          /\ UNCHANGED orders
     ELSE /\ orders' = Append(orders, [id |-> Len(orders) + 1,
                                       item_id |-> CurveItem,
                                       status |-> "draft",
                                       by |-> p])
          /\ wf' = [wf EXCEPT ![p] =
                      [Proceed(p, "createDraftOrderFromGPT", TRUE,
                               "createConversationalSession")
                         EXCEPT !.order_id = Len(orders) + 1]]
  /\ ret' = NoRet
  /\ UNCHANGED <<text, now, counts, an_vars, cv_vars, conversations>>

\* Step 5: createDraftOrderFromGPT inserts a row with status draft into
\* orders and throws the error of the insert
WfOrder(p, ok) ==
  /\ wf[p].pc = "createDraftOrderFromGPT"
  /\ IF ~ok
     THEN /\ wf' = [wf EXCEPT ![p] = Thrown(p, "createDraftOrderFromGPT")]
          /\ UNCHANGED orders
     ELSE /\ orders' = Append(orders, [id |-> Len(orders) + 1,
                                       item_id |-> CurveItem,
                                       status |-> "draft",
                                       by |-> p])
          /\ wf' = [wf EXCEPT ![p] =
                      [Proceed(p, "createDraftOrderFromGPT", TRUE,
                               "createConversationalSession")
                         EXCEPT !.order_id = Len(orders) + 1]]
  /\ ret' = NoRet
  /\ UNCHANGED <<text, now, counts, an_vars, cv_vars, conversations>>

\* Step 6: createConversationalSession; the text-to-speech call is its only
\* external call and its failure is caught ("continuing with text only")
WfSession(p, audioOk) ==
  /\ wf[p].pc = "createConversationalSession"
  /\ wf' = [wf EXCEPT ![p] =
              Proceed(p, "createConversationalSession", audioOk,
                      "saveConversationToDatabase")]
  /\ ret' = NoRet
  /\ UNCHANGED <<text, now, counts, an_vars, cv_vars, orders, conversations>>

\* Step 7: saveConversationToDatabase inserts into agent_conversations and
\* throws the error of the insert; then { success: true, ... }
WfConversation(p, ok) ==
  /\ wf[p].pc = "saveConversationToDatabase"
  /\ IF ~ok
     THEN /\ wf' = [wf EXCEPT ![p] = Thrown(p, "saveConversationToDatabase")]
          /\ UNCHANGED conversations
     ELSE /\ conversations' = Append(conversations,
                                     [order_id |-> wf[p].order_id, by |-> p])
          /\ wf' = [wf EXCEPT ![p] =
                      [Proceed(p, "saveConversationToDatabase", TRUE, "done")
                         EXCEPT !.result = "success"]]
  /\ ret' = NoRet
  /\ UNCHANGED <<text, now, counts, an_vars, cv_vars, orders>>

\* generatePredictionsForItems of executeInventoryWorkflow for the item, which
\* runs before the user starts a supplier search: an item that is not found
\* is left out; needsReorder compares the current data point with the
\* reorder level
GeneratePredictionsForItems(itemFound, readsOk) ==
  /\ \A p \in Invocations : wf[p].pc = "predictStockOut"
  /\ LET curve == predictiveCurveAtOnce(readsOk)
         current == currentData(curve.data)
     IN ret' = [op |-> "predictions",
                predictions |->
                  IF ~itemFound THEN <<>>
                  ELSE <<[itemId |-> CurveItem,
                          from_counts |-> curve.from_counts,
                          reorderLevels |-> curve.reorderLevels,
                          needsReorder |->
                            IF current = <<>> THEN FALSE
                            ELSE current[1].quantity
                                   < curve.reorderLevels.reorder_level]>>]
  /\ UNCHANGED <<text, now, counts, an_vars, cv_vars, wf_vars>>

GeneratePredictionsForItemsAny ==
  \E itemFound \in BOOLEAN, readsOk \in BOOLEAN :
    GeneratePredictionsForItems(itemFound, readsOk)

\* observations of the item are logged at any time
LogCountWf == \E q \in WorkflowQuantities : LogCount(CurveItem, q)

WfPredictAny == \E p \in Invocations, readsOk \in BOOLEAN : WfPredict(p, readsOk)

WfCurveAny == \E p \in Invocations, readsOk \in BOOLEAN : WfCurve(p, readsOk)

WfSearchAny == \E p \in Invocations, ok \in BOOLEAN : WfSearch(p, ok)

WfExistingAny == \E p \in Invocations, ok \in BOOLEAN : WfExisting(p, ok)

WfReasoningAny == \E p \in Invocations, ok \in BOOLEAN : WfReasoning(p, ok)

WfOrderAny == \E p \in Invocations, ok \in BOOLEAN : WfOrder(p, ok)

WfSessionAny == \E p \in Invocations, audioOk \in BOOLEAN : WfSession(p, audioOk)

WfConversationAny == \E p \in Invocations, ok \in BOOLEAN : WfConversation(p, ok)

NextWorkflow ==
  \/ LogCountWf
  \/ GeneratePredictionsForItemsAny
  \/ WfPredictAny
  \/ WfCurveAny
  \/ WfSearchAny
  \/ WfExistingAny
  \/ WfReasoningAny
  \/ WfOrderAny
  \/ WfSessionAny
  \/ WfConversationAny

SpecWorkflow == Init /\ [][NextWorkflow]_vars

(***************************************************************************)
(* parseInventoryItems                                                     *)
(*                                                                         *)
(* A line is a sequence of characters.  Each pattern is matched as the     *)
(* regular expression engine matches it: at the leftmost start, greedy     *)
(* groups as long and lazy groups as short as a match allows.              *)
(***************************************************************************)
SetMin(S) == CHOOSE x \in S : \A y \in S : x <= y

SetMax(S) == CHOOSE x \in S : \A y \in S : x >= y

\* \d
IsDigit(c) == c \in {"0", "3"}

DigitValue(c) == IF c = "3" THEN 3 ELSE 0

\* \s
IsSpace(c) == c = " "

\* parseInt of a sequence of digits
RECURSIVE parseInt(_)
parseInt(ds) ==
  IF ds = <<>> THEN 0
  ELSE 10 * parseInt(SubSeq(ds, 1, Len(ds) - 1)) + DigitValue(ds[Len(ds)])

\* String.prototype.trim
trim(str) ==
  LET inked == {i \in DOMAIN str : ~IsSpace(str[i])}
  IN IF inked = {} THEN <<>> ELSE SubSeq(str, SetMin(inked), SetMax(inked))

\* the positions where a run of digits starts, and the end of the run that
\* starts at i: \d+ takes the whole run in every pattern, because the
\* character after the group is never allowed to be a digit
RunStarts(line) ==
  {i \in DOMAIN line : IsDigit(line[i]) /\ (i = 1 \/ ~IsDigit(line[i - 1]))}

RunEnd(line, i) ==
  CHOOSE e \in i..Len(line) :
    /\ \A k \in i..e : IsDigit(line[k])
    /\ e = Len(line) \/ ~IsDigit(line[e + 1])

\* the first position from i on that holds no blank (Len + 1 if none)
SkipSpaces(line, i) ==
  CHOOSE k \in i..(Len(line) + 1) :
    /\ \A j \in i..(k - 1) : IsSpace(line[j])
    /\ k = Len(line) + 1 \/ ~IsSpace(line[k])

NoMatch == [matched |-> FALSE]

Match(name, quantity) == [matched |-> TRUE, name |-> name, quantity |-> quantity]

\* /(\d+)\s*x\s*(.+)/i
QuantityXName(line) ==
  LET starts == {i \in RunStarts(line) :
                   LET k == SkipSpaces(line, RunEnd(line, i) + 1)
                   IN k < Len(line) /\ line[k] = "x"}
  IN IF starts = {} THEN NoMatch
     ELSE LET i == SetMin(starts)
              e == RunEnd(line, i)
              k == SkipSpaces(line, e + 1)
          IN Match(trim(SubSeq(line, k + 1, Len(line))),
                   parseInt(SubSeq(line, i, e)))

\* /(.+?):\s*(\d+)/
NameColonQuantity(line) ==
  LET colons == {k \in 2..Len(line) :
                   /\ line[k] = ":"
                   /\ LET m == SkipSpaces(line, k + 1)
                      IN m <= Len(line) /\ IsDigit(line[m])}
  IN IF colons = {} THEN NoMatch
     ELSE LET k == SetMin(colons)
              m == SkipSpaces(line, k + 1)
          IN Match(trim(SubSeq(line, 1, k - 1)),
                   parseInt(SubSeq(line, m, RunEnd(line, m))))

\* /(.+?)\s*\((\d+)\)/
NameParenQuantity(line) ==
  LET parens == {p \in 2..Len(line) :
                   /\ line[p] = "("
                   /\ p + 1 <= Len(line)
                   /\ IsDigit(line[p + 1])
                   /\ LET e == RunEnd(line, p + 1)
                      IN e + 1 <= Len(line) /\ line[e + 1] = ")"}
  IN IF parens = {} THEN NoMatch
     ELSE LET p == SetMin(parens)
          IN Match(trim(SubSeq(line, 1, p - 1)),
                   parseInt(SubSeq(line, p + 1, RunEnd(line, p + 1))))

\* /(\d+)\s+(.+)/
QuantitySpaceName(line) ==
  LET starts == {i \in RunStarts(line) :
                   LET e == RunEnd(line, i)
                   IN e + 2 <= Len(line) /\ IsSpace(line[e + 1])}
  IN IF starts = {} THEN NoMatch
     ELSE LET i == SetMin(starts)
              e == RunEnd(line, i)
          IN Match(trim(SubSeq(line, e + 2, Len(line))),
                   parseInt(SubSeq(line, i, e)))

\* const patterns = [...]
Patterns(line) ==
  <<QuantityXName(line), NameColonQuantity(line),
    NameParenQuantity(line), QuantitySpaceName(line)>>

\* if (name && !isNaN(quantity) && quantity > 0)
Accepted(m) == m.matched /\ m.name # <<>> /\ m.quantity > 0

\* the loop over the patterns: the break is inside the test of the match, so
\* the loop ends at the first pattern whose match is accepted
parseLine(line) ==
  LET ms == Patterns(line)
      accepted == {n \in DOMAIN ms : Accepted(ms[n])}
  IN IF accepted = {} THEN <<>>
     ELSE <<[name |-> ms[SetMin(accepted)].name,
             quantity |-> ms[SetMin(accepted)].quantity]>>

\* parseInventoryItems leaving out a line whose name was already emitted
RECURSIVE parseInventoryItemsMerging(_)
parseInventoryItemsMerging(lines) ==
  IF lines = <<>> THEN <<>>
  ELSE LET before == parseInventoryItemsMerging(SubSeq(lines, 1, Len(lines) - 1))
           item == parseLine(lines[Len(lines)])
       IN IF item # <<>> /\ \E i \in DOMAIN before : before[i].name = item[1].name
          THEN before
          ELSE before \o item

\* the loop over the lines
RECURSIVE parseInventoryItems(_)
parseInventoryItems(lines) ==
  IF lines = <<>> THEN <<>>
  ELSE parseInventoryItems(SubSeq(lines, 1, Len(lines) - 1))
         \o parseLine(lines[Len(lines)])

\* the analysis text grows by a character of its last line
TypeChar(c, maxLen) ==
  /\ Len(text[Len(text)]) < maxLen
  /\ text' = [text EXCEPT ![Len(text)] = Append(@, c)]
  /\ ret' = NoRet
  /\ UNCHANGED <<now, counts, an_vars, cv_vars, wf_vars>>

\* the analysis text grows by a line break
NewLine(maxLines) ==
  /\ Len(text) < maxLines
  /\ text' = Append(text, EmptyLine)
  /\ ret' = NoRet
  /\ UNCHANGED <<now, counts, an_vars, cv_vars, wf_vars>>

\* const parsedItems = parseInventoryItems(analysis)
ParseInventoryItems ==
  /\ ret' = [op |-> "parse", items |-> parseInventoryItems(text)]
  /\ UNCHANGED <<now, counts, an_vars, cv_vars, wf_vars, text>>

\* a text of one line over the whole alphabet
TypeCharLine == \E c \in Alphabet : TypeChar(c, MaxLineLen)

NextParseLine ==
  \/ TypeCharLine
  \/ ParseInventoryItems

SpecParseLine == Init /\ [][NextParseLine]_vars

\* a text of several short lines
TypeCharText == \E c \in TextAlphabet : TypeChar(c, MaxTextLineLen)

NewLineText == NewLine(MaxLines)

NextParseText ==
  \/ TypeCharText
  \/ NewLineText
  \/ ParseInventoryItems

SpecParseText == Init /\ [][NextParseText]_vars

(***************************************************************************)
(* Properties of the reorder levels                                        *)
(***************************************************************************)
LevelsAreNaturals(lv) ==
  /\ lv.maximum_stock \in Nat
  /\ lv.reorder_level \in Nat
  /\ lv.minimum_stock \in Nat
  /\ lv.buffer_stock \in Nat
  /\ lv.lead_time_days \in Nat

\* C1: every ReorderLevels returned by calculateReorderLevels, computed or
\* default, has minimum_stock <= reorder_level <= maximum_stock
C1_LevelsOrdered ==
  ret.op = "levels" =>
    /\ ret.reorderLevels.minimum_stock <= ret.reorderLevels.reorder_level
    /\ ret.reorderLevels.reorder_level <= ret.reorderLevels.maximum_stock

\* levels computed from a prediction with a positive lead time
C1_Witness ==
  /\ ret.op = "levels"
  /\ ~ret.prediction.is_null
  /\ ret.prediction.estimated_daily_usage > 0
  /\ ret.reorderLevels.lead_time_days > 0
  /\ ret.reorderLevels.minimum_stock < ret.reorderLevels.reorder_level
  /\ ret.reorderLevels.reorder_level < ret.reorderLevels.maximum_stock

\* C2 as stated: on every path (calculateReorderLevels, and the empty-data and
\* error returns of generatePredictiveCurve) buffer_stock = minimum_stock and
\* all fields are non-negative integers
C2_BufferIsMinimumOnEveryPath ==
  (ret.op = "levels" \/ (ret.op = "curve" /\ ~ret.from_counts)) =>
    /\ ret.reorderLevels.buffer_stock = ret.reorderLevels.minimum_stock
    /\ LevelsAreNaturals(ret.reorderLevels)

\* C2 amended: levels computed from a prediction have buffer_stock =
\* minimum_stock; the fixed defaults (null prediction, empty data, error) have
\* minimum_stock 100 and buffer_stock 50; all fields are non-negative integers
\* on every path
C2_BufferIsMinimumWhenComputed ==
  /\ ret.op = "levels" =>
       /\ LevelsAreNaturals(ret.reorderLevels)
       /\ IF ret.prediction.is_null
          THEN /\ ret.reorderLevels.minimum_stock = 100
               /\ ret.reorderLevels.buffer_stock = 50
          ELSE ret.reorderLevels.buffer_stock = ret.reorderLevels.minimum_stock
  /\ (ret.op = "curve" /\ ~ret.from_counts) =>
       /\ LevelsAreNaturals(ret.reorderLevels)
       /\ ret.reorderLevels.minimum_stock = 100
       /\ ret.reorderLevels.buffer_stock = 50

\* levels computed from a prediction, with a positive buffer
C2_Witness ==
  /\ ret.op = "levels"
  /\ ~ret.prediction.is_null
  /\ ret.reorderLevels.buffer_stock > 0
  /\ ret.reorderLevels.reorder_level > ret.reorderLevels.buffer_stock

(***************************************************************************)
(* Properties of the predictive curve                                      *)
(***************************************************************************)
CurveDone == ret.op = "curve" /\ ret.from_counts

PredictedIndexes == {i \in DOMAIN ret.data : ret.data[i].is_predicted}

HasField(p, f) == f \in DOMAIN p

\* C3 as stated: the number of days the simulation advances past the last
\* observation is exactly days_forward, also when reorder triggers fire
C3_SimulatedDaysEqualDaysForward ==
  CurveDone => ret.simulatedDays = ret.daysForward

\* C4: without reorder trigger the number of predicted points equals
\* days_forward
C4_PredictedCountWithoutTrigger ==
  (CurveDone /\ ret.triggers = <<>>) =>
    Cardinality(PredictedIndexes) = ret.daysForward

\* a 30-day horizon simulated without any trigger
C4_Witness ==
  /\ CurveDone
  /\ ret.triggers = <<>>
  /\ ret.daysForward = 30
  /\ Cardinality(PredictedIndexes) = 30

\* C5: after each reorder trigger the output continues with lead_time_days
\* predicted points counting days_until_delivery down to 0 with
\* non-increasing quantities, then one restock point at maximum_stock with
\* is_reorder_point, and the decline resumes from maximum_stock
C5_TriggerSequence ==
  CurveDone =>
    \A n \in DOMAIN ret.triggers :
      LET base == ret.history + ret.triggers[n]
          L == ret.reorderLevels.lead_time_days
          restock == base + L + 1
      IN /\ restock <= Len(ret.data)
         /\ \A k \in 1..L :
              /\ ret.data[base + k].is_predicted
              /\ HasField(ret.data[base + k], "days_until_delivery")
              /\ ret.data[base + k].days_until_delivery = L - k
              /\ ~HasField(ret.data[base + k], "is_reorder_point")
              /\ ret.data[base + k].quantity <= ret.data[base + k - 1].quantity
         /\ ret.data[restock].is_predicted
         /\ HasField(ret.data[restock], "is_reorder_point")
         /\ ret.data[restock].is_reorder_point
         /\ ret.data[restock].quantity = ret.reorderLevels.maximum_stock
         /\ (restock < Len(ret.data) /\ ~(\E m \in DOMAIN ret.triggers :
                                            ret.history + ret.triggers[m] = restock)) =>
              /\ ret.data[restock + 1].is_reorder_point = FALSE
              /\ ret.data[restock + 1].quantity =
                   Max(ret.reorderLevels.minimum_stock,
                       MathRound(10 * ret.reorderLevels.maximum_stock - ret.dailyUsage))

\* a horizon with two reorder triggers, the decline resumed after the first
C5_Witness ==
  /\ CurveDone
  /\ Len(ret.triggers) >= 2
  /\ ret.reorderLevels.lead_time_days = 3
  /\ ret.history + ret.triggers[1] + 5 <= Len(ret.data)

\* C6: every predicted point has quantity >= the returned minimum_stock
C6_PredictedAtLeastMinimum ==
  CurveDone =>
    \A i \in PredictedIndexes :
      ret.data[i].quantity >= ret.reorderLevels.minimum_stock

\* a lead-time point and a normal point held at a positive minimum_stock
C6_Witness ==
  /\ CurveDone
  /\ ret.reorderLevels.minimum_stock > 0
  /\ \E i \in PredictedIndexes :
       /\ HasField(ret.data[i], "days_until_delivery")
       /\ ret.data[i].quantity = ret.reorderLevels.minimum_stock
  /\ \E i \in PredictedIndexes :
       /\ ~HasField(ret.data[i], "days_until_delivery")
       /\ ret.data[i].quantity = ret.reorderLevels.minimum_stock

\* C7: the returned series is chronological: the historical points come
\* first in ascending observation time, every predicted point comes after
\* every historical point, and the simulated dates never go backwards
C7_Chronological ==
  CurveDone =>
    /\ Len(ret.times) = Len(ret.data)
    /\ \A i \in DOMAIN ret.data :
         /\ ret.data[i].is_predicted <=> i > ret.history
         /\ ret.data[i].date = FormatDate(ret.times[i])
    /\ \A i, j \in DOMAIN ret.data :
         i < j => ret.times[i] <= ret.times[j]
    /\ \A i, j \in DOMAIN ret.data :
         (~ret.data[i].is_predicted /\ ret.data[j].is_predicted) =>
           ret.times[i] < ret.times[j]

\* a series with several historical points of different days, a trigger and
\* a restock
C7_Witness ==
  /\ CurveDone
  /\ ret.history >= 2
  /\ ret.times[1] < ret.times[ret.history]
  /\ ret.triggers # <<>>
  /\ Len(ret.data) > ret.history + 5

(***************************************************************************)
(* Properties of the stock analysis                                        *)
(***************************************************************************)
AnalyzeDone == ret.op = "analyze" /\ ~ret.threw

TrendsOf(ts) == {ts[i] : i \in DOMAIN ts}

RiskOfReported(decline_percentage) ==
  IF decline_percentage >= 50 THEN "critical"
  ELSE IF decline_percentage >= 30 THEN "high"
  ELSE IF decline_percentage >= 15 THEN "medium"
  ELSE "low"

\* C8 as stated: risk_level is determined by the reported (rounded)
\* decline_percentage with the thresholds 50, 30 and 15
C8_RiskFromReportedDecline ==
  AnalyzeDone =>
    \A t \in TrendsOf(ret.trends) :
      t.risk_level = RiskOfReported(t.decline_percentage)

\* C9 as stated: criticalItems are exactly the trends with risk_level
\* critical and lowStockItems exactly those with risk_level high
C9_BucketsByRisk ==
  AnalyzeDone =>
    /\ TrendsOf(ret.criticalItems) =
         {t \in TrendsOf(ret.trends) : t.risk_level = "critical"}
    /\ TrendsOf(ret.lowStockItems) =
         {t \in TrendsOf(ret.trends) : t.risk_level = "high"}

\* C10 as stated: a newest quantity above the oldest is reported as
\* increasing
C10_RisingIsIncreasing ==
  AnalyzeDone =>
    \A t \in TrendsOf(ret.trends) :
      t.current_quantity > t.previous_quantity => t.trend = "increasing"

\* C10 amended: a newest quantity above the oldest is reported as increasing
\* when the rise is at least 5 percent of the oldest quantity (or the oldest
\* is 0), and as stable when the rise is below 5 percent; never as decreasing
C10_RisingIsIncreasingOrStable ==
  AnalyzeDone =>
    \A t \in TrendsOf(ret.trends) :
      t.current_quantity > t.previous_quantity =>
        t.trend = IF (t.current_quantity - t.previous_quantity) * 100
                       >= 5 * t.previous_quantity
                  THEN "increasing" ELSE "stable"

\* one analysis reporting a rise of at least 5 percent
C10_Witness ==
  /\ AnalyzeDone
  /\ \E t \in TrendsOf(ret.trends) :
       /\ t.previous_quantity > 0
       /\ t.current_quantity > t.previous_quantity
       /\ t.trend = "increasing"

\* C11 as stated: the trend is stable when the absolute raw percent change
\* is below 5, otherwise increasing when current > previous, otherwise
\* decreasing, also for an oldest quantity of 0; equal oldest and newest
\* quantities are never reported as decreasing
C11_TrendClassification ==
  AnalyzeDone =>
    \A t \in TrendsOf(ret.trends) :
      LET rise100 == (t.current_quantity - t.previous_quantity) * 100
          abs100 == IF rise100 < 0 THEN -rise100 ELSE rise100
      IN /\ t.previous_quantity > 0 =>
              t.trend = IF abs100 < 5 * t.previous_quantity THEN "stable"
                        ELSE IF t.current_quantity > t.previous_quantity
                             THEN "increasing" ELSE "decreasing"
         /\ (t.previous_quantity = 0 /\ t.current_quantity > 0) =>
              t.trend = "increasing"
         /\ t.current_quantity = t.previous_quantity => t.trend # "decreasing"

\* C12: decline_percentage is ((previous - current) / previous) * 100 rounded
\* to the nearest integer (halves up) when previous > 0 and 0 when previous
\* is 0; 100 then 70 gives 30, risk_level high and a place in lowStockItems
C12_DeclinePercentage ==
  AnalyzeDone =>
    \A t \in TrendsOf(ret.trends) :
      /\ t.previous_quantity > 0 =>
           /\ (2 * t.decline_percentage - 1) * t.previous_quantity
                <= 200 * (t.previous_quantity - t.current_quantity)
           /\ 200 * (t.previous_quantity - t.current_quantity)
                < (2 * t.decline_percentage + 1) * t.previous_quantity
      /\ t.previous_quantity = 0 => t.decline_percentage = 0
      /\ (t.previous_quantity = 100 /\ t.current_quantity = 70) =>
           /\ t.decline_percentage = 30
           /\ t.risk_level = "high"
           /\ t \in TrendsOf(ret.lowStockItems)

\* the analysis at day 7 of an item counted 100 at day 0 and 70 at day 7
C12_Witness ==
  /\ AnalyzeDone
  /\ now = 7
  /\ \E i, j \in DOMAIN counts :
       /\ i < j
       /\ counts[i].item_id = counts[j].item_id
       /\ counts[i].created_at = 0 /\ counts[i].quantity = 100
       /\ counts[j].created_at = 7 /\ counts[j].quantity = 70
       /\ \E t \in TrendsOf(ret.lowStockItems) :
            /\ t.item_id = counts[i].item_id
            /\ t.previous_quantity = 100
            /\ t.current_quantity = 70
            /\ t.decline_percentage = 30

\* the items that appear in a list of trends
ItemsIn(ts) == {ts[i].item_id : i \in DOMAIN ts}

\* C13: an item with fewer than two observations in the analysis window is in
\* none of the buckets of analyzeStockLevels, its step in the loop raises no
\* error, and predictStockOut returns null for it
C13_TooFewObservations ==
  /\ [](AnalyzeDone =>
          \A item \in AllItems :
            Len(QueryCounts(item, now - ANALYZE_DAYS, now)) < 2 =>
              item \notin (ItemsIn(ret.trends) \cup ItemsIn(ret.lowStockItems)
                            \cup ItemsIn(ret.criticalItems)
                            \cup ItemsIn(ret.healthyStockItems)))
  /\ [](ret.op = "predict" =>
          (Len(QueryCountsSince(CurveItem, now - ret.days)) < 2 =>
             ret.prediction.is_null))
  /\ [][(an_pc = "loop" /\ an_idx' = an_idx + 1
          /\ Len(QueryCounts(ItemsOf(an_user)[an_idx], an_start, an_end)) < 2)
         => (an_pc' = "loop" /\ ret' = NoRet /\ an_trends' = an_trends)]_vars

\* an item counted at day 0 and at day 15 has one observation in the window of
\* the analysis of day 15, which returns without a trend for it
C13_Witness ==
  /\ AnalyzeDone
  /\ now = 15
  /\ Len(QueryCountsSince(1, 0)) = 2
  /\ Len(QueryCounts(1, now - ANALYZE_DAYS, now)) = 1
  /\ ret.trends = <<>>

\* the rows that the call of ret read: no row is logged and no day passes
\* between the call and the state that holds its result
PredictRows == QueryCountsSince(CurveItem, now - ret.days)

\* C14: predictStockOut returns null when the usage between the earliest and
\* the latest observation of the window is <= 0 or the latest quantity is
\* <= 0; a non-null prediction has current_quantity > 0 and
\* days_until_stock_out >= 1
C14_NullWithoutUsageOrStock ==
  ret.op = "predict" =>
    /\ (/\ Len(PredictRows) >= 2
        /\ \/ PredictRows[1].quantity - PredictRows[Len(PredictRows)].quantity <= 0
           \/ PredictRows[Len(PredictRows)].quantity <= 0)
         => ret.prediction.is_null
    /\ ~ret.prediction.is_null =>
         /\ ret.prediction.current_quantity > 0
         /\ ret.prediction.days_until_stock_out >= 1

\* a successful call over a window whose latest observation is 0 after a
\* positive one returns null
C14_Witness ==
  /\ ret.op = "predict"
  /\ ret.reads_ok
  /\ Len(PredictRows) >= 2
  /\ PredictRows[1].quantity > 0
  /\ PredictRows[Len(PredictRows)].quantity = 0
  /\ ret.prediction.is_null

C16_DefaultsOrComputed ==
  ret.op = "levels" =>
    LET lv == ret.reorderLevels
        lead == lv.lead_time_days
        defaults == [maximum_stock |-> 600, reorder_level |-> 300,
                     minimum_stock |-> 100, buffer_stock |-> 50,
                     lead_time_days |-> lead]
    IN /\ ret.prediction.is_null <=> lv = defaults
       /\ ~ret.prediction.is_null =>
            LET u == ret.prediction.estimated_daily_usage
                b == lv.buffer_stock
                c == lv.reorder_level - lv.buffer_stock
                m == lv.maximum_stock - lv.reorder_level
            IN /\ 100 * (b - 1) < 15 * lead * u /\ 15 * lead * u <= 100 * b
               /\ lv.minimum_stock = b
               /\ 10 * (c - 1) < lead * u /\ lead * u <= 10 * c
               /\ 10 * (m - 1) < 14 * u /\ 14 * u <= 10 * m

\* usage 5.0 with a lead time of 3 days: buffer 23, reorder 38, maximum 108
C16_Witness ==
  /\ ret.op = "levels"
  /\ ~ret.prediction.is_null
  /\ ret.prediction.estimated_daily_usage = 50
  /\ ret.reorderLevels = [maximum_stock |-> 108, reorder_level |-> 38,
                          minimum_stock |-> 23, buffer_stock |-> 23,
                          lead_time_days |-> 3]

\* C19 as stated: a call whose read failed does not hand its caller a result
\* that a successful analysis also returns: not the null of an item without
\* enough data and not the default reorder levels
C19_FailedReadIsDistinguishable ==
  /\ (ret.op = "levels" /\ ~ret.reads_ok) =>
       ret.reorderLevels # DefaultLevels(ret.reorderLevels.lead_time_days)
  /\ (ret.op = "predict" /\ ~ret.reads_ok) =>
       ret.prediction # NullPrediction

(***************************************************************************)
(* Properties of the supplier search workflow                              *)
(***************************************************************************)
\* the step of the pipeline that a call belongs to
StepOf(call) ==
  CASE call \in {"predictStockOut", "generatePredictiveCurve"} -> 1
    [] call = "searchSuppliersForItems" -> 2
    [] call = "fetchExistingSuppliers" -> 3
    [] call = "analyzeInventoryAndSuppliers" -> 4
    [] call = "createDraftOrderFromGPT" -> 5
    [] call = "createConversationalSession" -> 6
    [] call = "saveConversationToDatabase" -> 7

\* the calls of the log are in the order of the pipeline
InPipelineOrder(log) ==
  \A i, j \in DOMAIN log : i < j => StepOf(log[i].call) <= StepOf(log[j].call)

\* the number of times a function was called
TimesCalled(log, call) == Cardinality({i \in DOMAIN log : log[i].call = call})

\* C17 as stated: the steps run in the order predict, search suppliers, fetch
\* existing suppliers, reasoning, persist draft order, conversational
\* session, persist conversation, and nothing is invoked more than once in
\* an invocation
C17_OrderedAndOnce ==
  \A p \in Invocations :
    /\ InPipelineOrder(wf[p].log)
    /\ \A i \in DOMAIN wf[p].log : TimesCalled(wf[p].log, wf[p].log[i].call) = 1

\* C17 amended: the steps run in that order and every step after the
\* prediction is invoked at most once; the prediction step evaluates
\* predictStockOut up to three times (once directly, twice inside
\* generatePredictiveCurve), all before the supplier search
C17_OrderedAndOnceAfterPredict ==
  \A p \in Invocations :
    /\ InPipelineOrder(wf[p].log)
    /\ \A i \in DOMAIN wf[p].log :
         TimesCalled(wf[p].log, wf[p].log[i].call)
           <= (IF wf[p].log[i].call = "predictStockOut" THEN 3 ELSE 1)
    /\ wf[p].result = "success" =>
         \A n \in 1..7 : \E i \in DOMAIN wf[p].log : StepOf(wf[p].log[i].call) = n

\* a successful invocation that evaluated predictStockOut three times
C17_Witness ==
  \E p \in Invocations :
    /\ wf[p].result = "success"
    /\ TimesCalled(wf[p].log, "predictStockOut") = 3
    /\ Len(wf[p].log) = 10

\* the step of the call that invocation p makes next (8 when it has ended)
NextStep(p) == IF wf[p].pc = "done" THEN 8 ELSE StepOf(wf[p].pc)

\* C18 as stated: when a call of a collaborator fails, the invocation ends in
\* failure without executing a later step of the pipeline
C18_FailureEndsInvocation ==
  \A p \in Invocations :
    \A i \in DOMAIN wf[p].log :
      ~wf[p].log[i].ok =>
        /\ \A j \in DOMAIN wf[p].log :
             j > i => StepOf(wf[p].log[j].call) = StepOf(wf[p].log[i].call)
        /\ wf[p].result # "success"
        /\ \/ wf[p].pc = "done" /\ wf[p].result = "failure"
           \/ NextStep(p) = StepOf(wf[p].log[i].call)

\* the rows of a table written by invocation p
RowsBy(table, p) == {i \in DOMAIN table : table[i].by = p}

\* C20: invocations for the same item are not coordinated; every invocation
\* that completes successfully has inserted its own draft order for the item
\* and its own conversation for that order, whatever the other one did
C20_EachPersistsItsOwn ==
  \A p \in Invocations :
    wf[p].result = "success" =>
      /\ Cardinality(RowsBy(orders, p)) = 1
      /\ Cardinality(RowsBy(conversations, p)) = 1
      /\ \A i \in RowsBy(orders, p) :
           /\ orders[i].id = wf[p].order_id
           /\ orders[i].item_id = CurveItem
           /\ orders[i].status = "draft"
           /\ \A j \in RowsBy(conversations, p) :
                conversations[j].order_id = orders[i].id

\* both invocations completed successfully after overlapping: the first one
\* inserted its order first and its conversation last, and the item has two
\* draft orders
C20_Witness ==
  /\ wf[1].result = "success"
  /\ wf[2].result = "success"
  /\ Len(orders) = 2
  /\ orders[1].by = 1 /\ orders[2].by = 2
  /\ orders[1].item_id = orders[2].item_id
  /\ Len(conversations) = 2
  /\ conversations[1].by = 2 /\ conversations[2].by = 1

(***************************************************************************)
(* Determinism of the analysis                                             *)
(***************************************************************************)
\* the observations that a 30-day analysis of the item reads
HistoryRows == QueryCountsSince(CurveItem, now - HISTORY_DAYS)

\* C21 as stated: a run of predictStockOut or calculateReorderLevels before a
\* step and a run after it return the same value in every field whenever
\* both read the same observations, whatever the time of the runs
C21_SameSeriesSameOutput ==
  [][HistoryRows' = HistoryRows =>
       /\ predictStockOut(CurveItem, HISTORY_DAYS, TRUE)'
            = predictStockOut(CurveItem, HISTORY_DAYS, TRUE)
       /\ \A lead \in 0..MaxLeadTime :
            calculateReorderLevels(CurveItem, lead, TRUE)'
              = calculateReorderLevels(CurveItem, lead, TRUE)]_vars

\* C27 as stated: reorder levels returned by generatePredictiveCurve that are
\* not the defaults are the levels of the usage that the simulation subtracts
\* each day (ret.dailyUsage, in tenths)
C27_LevelsFromSimulatedUsage ==
  (CurveDone /\ ret.reorderLevels # DefaultLevels(DEFAULT_LEAD_TIME)) =>
    ret.reorderLevels = ComputedLevels(ret.dailyUsage, DEFAULT_LEAD_TIME)

(***************************************************************************)
(* Properties of the parser                                                *)
(***************************************************************************)
\* C22 as stated: a line contributes the match of the first pattern that
\* matches it, or nothing when that match has an empty name or a quantity
\* that is not positive, without a try of the later patterns; every item has
\* a name that is not empty and a quantity > 0
C22_StopsAtFirstMatch ==
  ret.op = "parse" =>
    /\ LET ms == Patterns(text[1])
           matching == {n \in DOMAIN ms : ms[n].matched}
       IN ret.items =
            IF matching = {} \/ ~Accepted(ms[SetMin(matching)]) THEN <<>>
            ELSE <<[name |-> ms[SetMin(matching)].name,
                    quantity |-> ms[SetMin(matching)].quantity]>>
    /\ \A i \in DOMAIN ret.items :
         ret.items[i].name # <<>> /\ ret.items[i].quantity > 0

\* C23: the items are the items of the lines that yield one, one item a
\* line, in the order of the lines; a line that yields none is passed over
\* and two lines with the same name give two items
C23_OneItemPerLineInOrder ==
  ret.op = "parse" =>
    /\ Len(ret.items) <= Len(text)
    /\ \E f \in [DOMAIN ret.items -> DOMAIN text] :
         /\ \A i, j \in DOMAIN ret.items : i < j => f[i] < f[j]
         /\ \A i \in DOMAIN ret.items : parseLine(text[f[i]]) = <<ret.items[i]>>
         /\ \A l \in DOMAIN text :
              (\A i \in DOMAIN ret.items : f[i] # l) => parseLine(text[l]) = <<>>

\* two lines that differ and yield the same name, and both items returned
C23_Witness ==
  /\ ret.op = "parse"
  /\ Len(text) = 2
  /\ text[1] # text[2]
  /\ Len(ret.items) = 2
  /\ ret.items[1].name = ret.items[2].name

(***************************************************************************)
(* Properties of the workflow's use of the analysis                        *)
(***************************************************************************)
\* the observation that is the latest at the time of the reads
LatestRow == HistoryRows[Len(HistoryRows)]

\* C24 as stated: for a series of two or more observations, the current
\* quantity that executeSupplierSearchWorkflow takes from the curve is the
\* quantity of the latest observation, and generatePredictionsForItems sets
\* needsReorder by comparing that latest quantity with reorder_level
C24_CurrentIsLatest ==
  /\ [][\A p \in Invocations :
          (/\ wf[p].pc = "generatePredictiveCurve"
           /\ wf'[p].pc = "searchSuppliersForItems"
           /\ wf'[p].log[Len(wf[p].log) + 1].ok
           /\ Len(HistoryRows) >= 2)
          => wf'[p].current_quantity = LatestRow.quantity]_vars
  /\ [](ret.op = "predictions" =>
          \A i \in DOMAIN ret.predictions :
            (ret.predictions[i].from_counts /\ Len(HistoryRows) >= 2) =>
              (ret.predictions[i].needsReorder
                 <=> LatestRow.quantity
                       < ret.predictions[i].reorderLevels.reorder_level))

\* C25 as stated: an invocation that ends in failure has left no draft order
C25_FailureLeavesNoOrder ==
  \A p \in Invocations :
    wf[p].result = "failure" => RowsBy(orders, p) = {}

\* the calls of invocation p that belong to step n of the pipeline or later
CallsFromStep(p, n) == {i \in DOMAIN wf[p].log : StepOf(wf[p].log[i].call) >= n}

\* C26: when the call of predictStockOut gave null, the invocation ends with
\* success: false after generatePredictiveCurve without a call of the supplier
\* search, the reasoning, the draft order or the conversation; a successful
\* invocation has a prediction that is not null
C26_NullPredictionFails ==
  \A p \in Invocations :
    /\ (wf[p].prediction.is_null /\ Len(wf[p].log) >= 2) =>
         /\ wf[p].pc = "done"
         /\ wf[p].result = "failure"
         /\ CallsFromStep(p, 2) = {}
         /\ RowsBy(orders, p) = {} /\ RowsBy(conversations, p) = {}
    /\ wf[p].result = "success" => ~wf[p].prediction.is_null

\* an invocation whose reads succeeded on an item with observations and whose
\* prediction was null
C26_Witness ==
  \E p \in Invocations :
    /\ wf[p].result = "failure"
    /\ wf[p].prediction.is_null
    /\ Len(wf[p].log) = 4
    /\ \A i \in DOMAIN wf[p].log : wf[p].log[i].ok

(***************************************************************************)
(* Properties of the simulated decline                                     *)
(***************************************************************************)
\* the last historical point of a returned curve
LastHistorical == ret.data[ret.history]

\* C28: if the quantity after the first simulated day is at or below
\* minimum_stock (last observed quantity - daily usage <= minimum_stock,
\* usage > 0), every predicted point has quantity minimum_stock and no
\* reorder trigger and no restock point is emitted, whatever days_forward
C28_HeldAtMinimum ==
  (/\ CurveDone
   /\ ret.dailyUsage > 0
   /\ 10 * LastHistorical.quantity - ret.dailyUsage
        <= 10 * ret.reorderLevels.minimum_stock) =>
    /\ ret.triggers = <<>>
    /\ \A i \in PredictedIndexes :
         /\ ret.data[i].quantity = ret.reorderLevels.minimum_stock
         /\ HasField(ret.data[i], "is_reorder_point")
         /\ ret.data[i].is_reorder_point = FALSE

\* a 30-day horizon held at a minimum_stock computed from an observed usage,
\* entered from an observation below reorder_level
C28_Witness ==
  /\ CurveDone
  /\ ~ret.prediction.is_null
  /\ ret.reorderLevels # DefaultLevels(DEFAULT_LEAD_TIME)
  /\ 10 * LastHistorical.quantity - ret.dailyUsage
       <= 10 * ret.reorderLevels.minimum_stock
  /\ LastHistorical.quantity <= ret.reorderLevels.reorder_level
  /\ ret.daysForward = 30
  /\ Cardinality(PredictedIndexes) = 30
  /\ \A i \in PredictedIndexes :
       ret.data[i].quantity = ret.reorderLevels.minimum_stock

\* C29 as stated: a predicted point has a greater quantity than the point
\* immediately before it only if it is a restock point (is_reorder_point
\* true)
C29_RisesOnlyWithRestock ==
  CurveDone =>
    \A i \in PredictedIndexes :
      (i > 1 /\ ret.data[i].quantity > ret.data[i - 1].quantity) =>
        /\ HasField(ret.data[i], "is_reorder_point")
        /\ ret.data[i].is_reorder_point

\* C30 as stated: consecutive predicted points are exactly one simulated day
\* apart, the first one day after the last observation
C30_OnePointPerSimulatedDay ==
  CurveDone =>
    \A i \in PredictedIndexes :
      i > 1 => ret.times[i] = ret.times[i - 1] + 1

====
